---- MODULE Spec2Model ----
(***************************************************************************)
(* Model of telegram_loan_bot.py: the amortization engine                  *)
(* (annuity_payment, build_schedule), the five-step conversation that      *)
(* collects its inputs, and the calculation step that feeds one schedule   *)
(* to the three renderers.                                                 *)
(*                                                                         *)
(* Numbers.  The program computes in binary floating point and rounds to   *)
(* two decimals with round(x, 2).  The model keeps every float as a        *)
(* fixed-point integer in thousandths (Scale units per 1.0), so a cent is  *)
(* UnitsPerCent units and an amount that is not a whole number of cents    *)
(* can still be an input.  Quotients are computed exactly (floor and       *)
(* "no remainder" flag).  round(x, 2) rounds to the nearest cent; when x   *)
(* lies exactly on a half cent the float the program holds may sit on      *)
(* either side of it, so round2 returns BOTH neighbours there and every    *)
(* function built on it returns the SET of results the program can give.   *)
(***************************************************************************)
EXTENDS Integers, Sequences, FiniteSets, TLC

VARIABLES
    \* --- one call of the engine (SpecEngine) ---
    principal,            \* argument principal, in thousandths
    annual_rate_percent,  \* argument annual_rate_percent, in thousandths of a percent
    months,               \* argument months
    call,                 \* "none" | "annuity_payment" | "build_schedule"
    outcome,              \* "pending" | "returned" | "raised"
    payment,              \* value returned by annuity_payment
    \* --- results of build_schedule (engine call, or locals of name_received) ---
    rows,                 \* the list rows
    summary,              \* the dict summary
    \* --- the conversation (Spec) ---
    state,                \* ConversationHandler state of the chat
    user_data,            \* context.user_data
    update,               \* update.message.text of the last message handled
    sent,                 \* replies handed to the delivery layer by the last handler
    raised                \* the call that raised out of the last handler, or "none"

vars == <<principal, annual_rate_percent, months, call, outcome, payment,
          rows, summary, state, user_data, update, sent, raised>>

engineVars == <<principal, annual_rate_percent, months, call, outcome, payment>>
botVars == <<state, user_data, update, sent, raised>>

---------------------------------------------------------------------------
(* Bounds of the model                                                     *)

MaxPrincipal == 1000   \* largest principal drawn in SpecEngine, in thousandths
MaxMonths == 5         \* largest term drawn in SpecEngine
MaxInvalid == 1        \* terms down to -MaxInvalid are drawn in SpecEngine

\* annual rates drawn in SpecEngine, in thousandths of a percent:
\* 0 %, 60 %, 120 %, 600 % (monthly 0, 1/20, 1/10, 1/2)
Rates == {0, 60000, 120000, 600000}

---------------------------------------------------------------------------
(* Fixed-point arithmetic standing for the program's floats                *)

Scale == 1000
UnitsPerCent == 10

RECURSIVE Gcd(_, _)
Gcd(a, b) == IF b = 0 THEN a ELSE Gcd(b, a % b)

RECURSIVE Pow(_, _)
Pow(b, e) == IF e = 0 THEN 1 ELSE b * Pow(b, e - 1)

\* <<floor(a*b/c), (a*b) mod c>> for a, b >= 0 and c > 0, by halving b so that
\* no intermediate value leaves the 32-bit range
RECURSIVE MulDiv(_, _, _)
MulDiv(a, b, c) ==
    IF b = 0 THEN <<0, 0>>
    ELSE LET h == MulDiv(a, b \div 2, c)
             t == 2 * h[2] + (b % 2) * (a % c)
         IN  <<2 * h[1] + (b % 2) * (a \div c) + (t \div c), t % c>>

\* r = (annual_rate_percent / 100.0) / 12.0 as a reduced fraction <<num, den>>
MonthlyRate(rate) ==
    LET g == Gcd(rate, 1200 * Scale)
    IN  <<rate \div g, (1200 * Scale) \div g>>

\* round(x, 2) for x = q + f thousandths, q = floor(x), f = 0 iff exact:
\* the set of values the program can obtain (two only on an exact half cent)
round2(q, exact) ==
    LET lo == (q \div UnitsPerCent) * UnitsPerCent
        rm == q % UnitsPerCent
    IN  IF 2 * rm < UnitsPerCent THEN {lo}
        ELSE IF 2 * rm > UnitsPerCent \/ ~exact THEN {lo + UnitsPerCent}
        ELSE {lo, lo + UnitsPerCent}

Max(a, b) == IF a >= b THEN a ELSE b

---------------------------------------------------------------------------
(* The amortization engine                                                 *)

NoSummary ==
    [principal |-> 0, annual_rate_percent |-> 0, months |-> 0,
     payment |-> 0, total_interest |-> 0, total_paid |-> 0]

\* mutant: the zero-rate payment left unrounded
zero_rate_payment_unrounded(p, n) == {p \div n}

\* r == 0: round(principal / months, 2)
zero_rate_payment(p, n) == round2(p \div n, p % n = 0)

\* r != 0: round(principal * r / (1 - (1 + r) ** (-months)), 2), with
\* principal * r / (1 - (1+r)^-n) = principal * num * q^n / (den * (q^n - den^n)),
\* q = num + den
annuity_formula(p, r, n) ==
    LET qn == Pow(r[1] + r[2], n)
        dn == Pow(r[2], n)
        pmt == MulDiv(p * r[1], qn, r[2] * (qn - dn))
    IN  round2(pmt[1], pmt[2] = 0)

payment_values(p, rate, n) ==
    LET r == MonthlyRate(rate)
    IN  {[raised |-> FALSE, value |-> v] :
            v \in IF r[1] = 0 THEN zero_rate_payment(p, n) ELSE annuity_formula(p, r, n)}

\* mutant: a term <= 0 silently replaced by a term of one month
annuity_payment_corrected(p, rate, n) ==
    payment_values(p, rate, IF n <= 0 THEN 1 ELSE n)

\* the outcomes of annuity_payment: raised (ValueError), or a returned value
annuity_payment(p, rate, n) ==
    IF n <= 0 THEN {[raised |-> TRUE, value |-> 0]}
    ELSE payment_values(p, rate, n)

\* mutant: the final period is not forced to pay off the balance
principal_part_unforced(m, n, pay, interest, balance) ==
    round2(pay - interest, TRUE)

\* mutant: the payoff is forced one period early
principal_part_early(m, n, pay, interest, balance) ==
    IF m = n - 1 THEN round2(balance, TRUE) ELSE round2(pay - interest, TRUE)

\* on the final period the principal part is the whole remaining balance
principal_part_of(m, n, pay, interest, balance) ==
    IF m = n THEN round2(balance, TRUE) ELSE round2(pay - interest, TRUE)

\* mutant: the final period's payment is not recomputed
payment_m_fixed(m, n, pay, interest, principal_part) == {pay}

\* the payment shown in the row: recomputed on the final period
payment_m_of(m, n, pay, interest, principal_part) ==
    IF m = n THEN round2(principal_part + interest, TRUE) ELSE {pay}

\* what the row shows as remaining balance
shown_balance(balance) == Max(balance, 0)

\* one pass of the loop body for period m, from loop state st
Period(st, m, n, r, pay) ==
    UNION { UNION { UNION {
        { [balance |-> b,
           total_interest |-> st.total_interest + interest,
           total_principal |-> st.total_principal + pp,
           rows |-> Append(st.rows,
                      [m |-> m, payment_m |-> pm, interest |-> interest,
                       principal_part |-> pp, balance |-> shown_balance(b)])]
          : b \in round2(st.balance - pp, TRUE) }
        : pm \in payment_m_of(m, n, pay, interest, pp) }
        : pp \in principal_part_of(m, n, pay, interest, st.balance) }
        : interest \in round2((st.balance * r[1]) \div r[2],
                              (st.balance * r[1]) % r[2] = 0) }

RECURSIVE Loop(_, _, _, _, _)
Loop(st, m, n, r, pay) ==
    IF m > n THEN {st}
    ELSE UNION { Loop(s, m + 1, n, r, pay) : s \in Period(st, m, n, r, pay) }

\* mutant: total paid taken as months times the monthly payment
total_paid_from_payment(total_interest, p, pay, n) == round2(pay * n, TRUE)

\* summary["Итого выплат"]: interest accumulated in the loop plus the original principal
total_paid_of(total_interest, p, pay, n) == round2(total_interest + p, TRUE)

Summaries(st, p, rate, n, pay) ==
    UNION { UNION {
        { [principal |-> sp, annual_rate_percent |-> rate, months |-> n,
           payment |-> pay, total_interest |-> ti, total_paid |-> tp]
          : tp \in total_paid_of(st.total_interest, p, pay, n) }
        : ti \in round2(st.total_interest, TRUE) }
        : sp \in round2(p, TRUE) }

\* the outcomes of build_schedule: raised, or the returned (rows, summary)
build_schedule(p, rate, n) ==
    UNION {
        IF a.raised
        THEN {[raised |-> TRUE, rows |-> <<>>, summary |-> NoSummary]}
        ELSE UNION {
            { [raised |-> FALSE, rows |-> st.rows, summary |-> s]
              : s \in Summaries(st, p, rate, n, a.value) }
            : st \in Loop([balance |-> p, total_interest |-> 0,
                           total_principal |-> 0, rows |-> <<>>],
                          1, n, MonthlyRate(rate), a.value) }
        : a \in annuity_payment(p, rate, n) }

---------------------------------------------------------------------------
(* The conversation: ConversationHandler states and the message handlers   *)

AMOUNT == 0
TERM == 1
RATE == 2
MANUALPAY == 3
NAME == 4
END == -1

\* A message text is a sequence of one-character strings.  The texts a user
\* sends in the model: a word, a blank, zero, a negative number, an integer
\* with a leading space, a decimal written with a comma.
Texts ==
    { <<"a">>, <<" ">>, <<"0">>, <<"1">>, <<"-", "1">>, <<" ", "2">>, <<"1", ",", "5">> }

\* the two commands of the conversation
CmdCalc == <<"/calc">>
CmdCancel == <<"/cancel">>

Digits == <<"0", "1", "2", "3", "4", "5", "6", "7", "8", "9">>
IsDigit(c) == \E i \in 1..Len(Digits) : Digits[i] = c
DigitValue(c) == (CHOOSE i \in 1..Len(Digits) : Digits[i] = c) - 1

RECURSIVE NumberValue(_)
NumberValue(ds) ==
    IF Len(ds) = 0 THEN 0
    ELSE NumberValue(SubSeq(ds, 1, Len(ds) - 1)) * Len(Digits) + DigitValue(ds[Len(ds)])

\* text.replace(" ", "").replace(",", ".")
Normalise(text) ==
    LET t == SelectSeq(text, LAMBDA c : c # " ")
    IN  [i \in 1..Len(t) |-> IF t[i] = "," THEN "." ELSE t[i]]

\* text.strip()
RECURSIVE lstrip(_)
lstrip(t) == IF Len(t) > 0 /\ t[1] = " " THEN lstrip(Tail(t)) ELSE t
RECURSIVE rstrip(_)
rstrip(t) ==
    IF Len(t) > 0 /\ t[Len(t)] = " " THEN rstrip(SubSeq(t, 1, Len(t) - 1)) ELSE t
strip(t) == rstrip(lstrip(t))

\* float(t) on the characters of Texts: an optional sign, digits with at most
\* one point and at least one digit; anything else raises ValueError (ok FALSE).
\* The value is in thousandths (texts carry at most three decimals).
py_float(t) ==
    LET neg == Len(t) > 0 /\ t[1] = "-"
        body == IF neg THEN Tail(t) ELSE t
        dots == {i \in 1..Len(body) : body[i] = "."}
        dot == IF dots = {} THEN Len(body) + 1 ELSE CHOOSE i \in dots : TRUE
        ip == SubSeq(body, 1, dot - 1)
        fp == SubSeq(body, dot + 1, Len(body))
        ok == /\ Cardinality(dots) <= 1
              /\ Len(ip) + Len(fp) > 0
              /\ Len(fp) <= 3
              /\ \A i \in 1..Len(body) : i \in dots \/ IsDigit(body[i])
        mag == NumberValue(ip) * Scale + NumberValue(fp) * Pow(Len(Digits), 3 - Len(fp))
    IN  IF ok THEN [ok |-> TRUE, value |-> IF neg THEN 0 - mag ELSE mag]
        ELSE [ok |-> FALSE, value |-> 0]

\* int(t): an optional sign and at least one digit, nothing else
py_int(t) ==
    LET neg == Len(t) > 0 /\ t[1] = "-"
        body == IF neg THEN Tail(t) ELSE t
        ok == Len(body) > 0 /\ \A i \in 1..Len(body) : IsDigit(body[i])
    IN  IF ok THEN [ok |-> TRUE,
                    value |-> IF neg THEN 0 - NumberValue(body) ELSE NumberValue(body)]
        ELSE [ok |-> FALSE, value |-> 0]

parse_amount(text) == py_float(Normalise(text))
parse_rate(text) == py_float(Normalise(text))
parse_term(text) == py_int(strip(text))

\* context.user_data[k] = v
Put(d, k, v) == [x \in (DOMAIN d) \cup {k} |-> IF x = k THEN v ELSE d[x]]

\* the three renderers, in the order name_received calls them
Renderers == <<"schedule_chart_bytes", "schedule_csv_bytes", "make_contract_pdf_bytes">>
RendererNames == {Renderers[i] : i \in 1..Len(Renderers)}

\* what name_received has handed to the delivery layer when renderer `fail`
\* raises ("none": no renderer raises): the summary text, then the output of
\* every renderer called before the one that raised
Replies(fail) ==
    LET stop == IF fail = "none" THEN Len(Renderers) + 1
                ELSE CHOOSE i \in 1..Len(Renderers) : Renderers[i] = fail
    IN  <<"summary_text">> \o SubSeq(Renderers, 1, stop - 1)

calc_start ==
    /\ state = END
    /\ update' = CmdCalc
    /\ sent' = <<"ask_amount">>
    /\ raised' = "none"
    /\ state' = AMOUNT
    /\ UNCHANGED <<user_data, rows, summary>>
    /\ UNCHANGED engineVars

cancel ==
    /\ state # END
    /\ update' = CmdCancel
    /\ sent' = <<"cancelled">>
    /\ raised' = "none"
    /\ state' = END
    /\ UNCHANGED <<user_data, rows, summary>>
    /\ UNCHANGED engineVars

amount_received(text) ==
    /\ state = AMOUNT
    /\ update' = text
    /\ raised' = "none"
    /\ LET amount == parse_amount(text)
       IN  IF amount.ok /\ amount.value > 0
           THEN /\ user_data' = Put(user_data, "amount", amount.value)
                /\ sent' = <<"ask_term">>
                /\ state' = TERM
           ELSE /\ user_data' = user_data
                /\ sent' = <<"error_amount">>
                /\ state' = AMOUNT
    /\ UNCHANGED <<rows, summary>>
    /\ UNCHANGED engineVars

term_received(text) ==
    /\ state = TERM
    /\ update' = text
    /\ raised' = "none"
    /\ LET term == parse_term(text)
       IN  IF term.ok /\ term.value > 0
           THEN /\ user_data' = Put(user_data, "term", term.value)
                /\ sent' = <<"ask_rate">>
                /\ state' = RATE
           ELSE /\ user_data' = user_data
                /\ sent' = <<"error_term">>
                /\ state' = TERM
    /\ UNCHANGED <<rows, summary>>
    /\ UNCHANGED engineVars

rate_received(text) ==
    /\ state = RATE
    /\ update' = text
    /\ raised' = "none"
    /\ LET rate == parse_rate(text)
       IN  IF rate.ok /\ rate.value >= 0
           THEN /\ user_data' = Put(user_data, "rate", rate.value)
                /\ sent' = <<"ask_manual_payment">>
                /\ state' = MANUALPAY
           ELSE /\ user_data' = user_data
                /\ sent' = <<"error_rate">>
                /\ state' = RATE
    /\ UNCHANGED <<rows, summary>>
    /\ UNCHANGED engineVars

manual_payment_received(text) ==
    /\ state = MANUALPAY
    /\ update' = text
    /\ raised' = "none"
    /\ LET manual_payment == parse_amount(text)
       IN  IF manual_payment.ok /\ manual_payment.value > 0
           THEN /\ user_data' = Put(user_data, "manual_payment", manual_payment.value)
                /\ sent' = <<"ask_name">>
                /\ state' = NAME
           ELSE /\ user_data' = user_data
                /\ sent' = <<"error_manual_payment">>
                /\ state' = MANUALPAY
    /\ UNCHANGED <<rows, summary>>
    /\ UNCHANGED engineVars

\* The whole handler: the name is stored, build_schedule is called, the summary
\* text is sent, then the renderers are called one after the other with no
\* exception handler around them.  A renderer may raise (`fail`); the
\* exception then leaves the handler, nothing after it runs, and the
\* ConversationHandler keeps the chat in the state it was in.
name_received(text) ==
    /\ state = NAME
    /\ update' = text
    /\ LET name == strip(text)
       IN  IF Len(name) = 0
           THEN /\ sent' = <<"ask_name_again">>
                /\ raised' = "none"
                /\ state' = NAME
                /\ UNCHANGED <<user_data, rows, summary>>
           ELSE /\ user_data' = Put(user_data, "name", name)
                /\ \E res \in build_schedule(user_data["amount"], user_data["rate"],
                                             user_data["term"]) :
                     IF res.raised
                     THEN /\ raised' = "build_schedule"
                          /\ sent' = <<>>
                          /\ state' = NAME
                          /\ UNCHANGED <<rows, summary>>
                     ELSE /\ rows' = res.rows
                          /\ summary' = res.summary
                          /\ \E fail \in {"none"} \cup RendererNames :
                                /\ raised' = fail
                                /\ sent' = Replies(fail)
                                /\ state' = IF fail = "none" THEN END ELSE NAME
    /\ UNCHANGED engineVars

---------------------------------------------------------------------------
(* SpecEngine: one call of the engine on inputs drawn from bounded sets    *)

InitBot ==
    /\ state = END
    /\ user_data = [k \in {} |-> 0]
    /\ update = <<>>
    /\ sent = <<>>
    /\ raised = "none"

InitEngine ==
    /\ principal \in 1..MaxPrincipal
    /\ annual_rate_percent \in Rates
    /\ months \in (0 - MaxInvalid)..MaxMonths
    /\ call = "none"
    /\ outcome = "pending"
    /\ payment = 0
    /\ rows = <<>>
    /\ summary = NoSummary
    /\ InitBot

CallAnnuityPayment ==
    /\ call = "none"
    /\ \E a \in annuity_payment(principal, annual_rate_percent, months) :
          /\ outcome' = IF a.raised THEN "raised" ELSE "returned"
          /\ payment' = a.value
    /\ call' = "annuity_payment"
    /\ UNCHANGED <<principal, annual_rate_percent, months, rows, summary>>
    /\ UNCHANGED botVars

CallBuildSchedule ==
    /\ call = "none"
    /\ \E res \in build_schedule(principal, annual_rate_percent, months) :
          /\ outcome' = IF res.raised THEN "raised" ELSE "returned"
          /\ rows' = res.rows
          /\ summary' = res.summary
    /\ call' = "build_schedule"
    /\ UNCHANGED <<principal, annual_rate_percent, months, payment>>
    /\ UNCHANGED botVars

NextEngine == CallAnnuityPayment \/ CallBuildSchedule

SpecEngine == InitEngine /\ [][NextEngine]_vars

---------------------------------------------------------------------------
(* Spec: one chat talking to the bot                                       *)

Init ==
    /\ principal = 0
    /\ annual_rate_percent = 0
    /\ months = 0
    /\ call = "none"
    /\ outcome = "pending"
    /\ payment = 0
    /\ rows = <<>>
    /\ summary = NoSummary
    /\ InitBot

Next ==
    \/ calc_start
    \/ cancel
    \/ \E text \in Texts : amount_received(text)
    \/ \E text \in Texts : term_received(text)
    \/ \E text \in Texts : rate_received(text)
    \/ \E text \in Texts : manual_payment_received(text)
    \/ \E text \in Texts : name_received(text)

Spec == Init /\ [][Next]_vars

---------------------------------------------------------------------------
(* Properties of the engine, checked under SpecEngine                      *)

RECURSIVE Sum(_)
Sum(s) == IF s = <<>> THEN 0 ELSE Head(s) + Sum(Tail(s))

Column(name) == [i \in 1..Len(rows) |-> rows[i][name]]

Abs(x) == IF x < 0 THEN 0 - x ELSE x

ValidInput == principal > 0 /\ annual_rate_percent >= 0 /\ months >= 1
WholeCents == principal % UnitsPerCent = 0
Returned == call = "build_schedule" /\ outcome = "returned"
LastRow == rows[Len(rows)]

C2_RowSplitsPayment ==
    (Returned /\ ValidInput) =>
        \A i \in 1..Len(rows) :
            /\ rows[i].interest + rows[i].principal_part = rows[i].payment_m
            /\ rows[i].payment_m % UnitsPerCent = 0
            /\ i < Len(rows) => rows[i].payment_m = summary.payment

C2_Witness ==
    /\ Returned /\ ValidInput /\ months >= 2
    /\ rows[1].interest > 0 /\ rows[1].principal_part > 0
    /\ LastRow.interest > 0
    /\ LastRow.payment_m # summary.payment

\* C3: the principal parts of all rows add up to the original principal within
\* months * 0.01, and exactly when the principal is a whole number of cents.
C3_PrincipalRepaid ==
    (Returned /\ ValidInput) =>
        /\ Abs(Sum(Column("principal_part")) - principal) <= months * UnitsPerCent
        /\ WholeCents => Sum(Column("principal_part")) = principal

C3_Witness ==
    /\ Returned /\ ValidInput /\ months >= 3
    /\ ~WholeCents
    /\ Sum(Column("principal_part")) # principal
    /\ LastRow.principal_part # rows[1].principal_part

\* C4: the remaining balance shown never grows from one row to the next, and
\* the first row shows no more than the principal.
C4_BalanceNonIncreasing ==
    (Returned /\ ValidInput) =>
        /\ rows[1].balance <= principal
        /\ \A i \in 1..(Len(rows) - 1) : rows[i + 1].balance <= rows[i].balance

C4_Witness ==
    /\ Returned /\ ValidInput /\ months >= 3
    /\ rows[1].balance < principal
    /\ \A i \in 1..(Len(rows) - 1) : rows[i + 1].balance < rows[i].balance

\* C5: a term <= 0 makes annuity_payment and build_schedule raise to the
\* caller: nothing is returned, no row and no summary is produced, and the
\* term is not replaced by a valid one.
C5_InvalidTermRaises ==
    (call # "none" /\ months <= 0) =>
        /\ outcome = "raised"
        /\ payment = 0 /\ rows = <<>> /\ summary = NoSummary

C5_Witness ==
    /\ call = "build_schedule" /\ months <= 0 /\ annual_rate_percent = 0
    /\ outcome = "raised" /\ rows = <<>>

\* C6: at rate 0 every row has interest 0, and every row but the final
\* adjusted one has principal part round(principal / months, 2): a whole
\* number of cents at most half a cent away from principal / months.
C6_ZeroRate ==
    (Returned /\ ValidInput /\ annual_rate_percent = 0) =>
        \A i \in 1..Len(rows) :
            /\ rows[i].interest = 0
            /\ i < Len(rows) =>
                /\ rows[i].principal_part % UnitsPerCent = 0
                /\ 2 * Abs(rows[i].principal_part * months - principal)
                       <= UnitsPerCent * months

C6_Witness ==
    /\ Returned /\ ValidInput /\ annual_rate_percent = 0 /\ months >= 3
    /\ rows[1].principal_part * months > principal
    /\ LastRow.principal_part > 0
    /\ LastRow.principal_part # rows[1].principal_part

\* C9: for a valid input in whole cents no row has a negative principal part
\* or a negative payment.
C9_NoNegativeAmounts ==
    (Returned /\ ValidInput /\ WholeCents) =>
        \A i \in 1..Len(rows) :
            rows[i].principal_part >= 0 /\ rows[i].payment_m >= 0

\* C10: for a valid input in whole cents the summary's total paid is the sum of
\* the rows' payments and its total interest the sum of the rows' interest.
C10_SummaryTotals ==
    (Returned /\ ValidInput /\ WholeCents) =>
        /\ summary.total_paid = Sum(Column("payment_m"))
        /\ summary.total_interest = Sum(Column("interest"))

C10_Witness ==
    /\ Returned /\ ValidInput /\ WholeCents /\ months >= 3
    /\ summary.total_interest > 0
    /\ summary.total_paid = Sum(Column("payment_m"))
    /\ LastRow.payment_m # summary.payment

---------------------------------------------------------------------------
(* Properties of the conversation, checked under Spec                      *)

Steps == {AMOUNT, TERM, RATE, MANUALPAY, NAME}

Field(s) ==
    CASE s = AMOUNT -> "amount"
      [] s = TERM -> "term"
      [] s = RATE -> "rate"
      [] s = MANUALPAY -> "manual_payment"
      [] s = NAME -> "name"

\* the step after s in the fixed order; the flow ends after the name
Following(s) == IF s = NAME THEN END ELSE s + 1

\* the message passes the step's parsing and validation
Acceptable(s, text) ==
    CASE s = AMOUNT -> parse_amount(text).ok /\ parse_amount(text).value > 0
      [] s = TERM -> parse_term(text).ok /\ parse_term(text).value > 0
      [] s = RATE -> parse_rate(text).ok /\ parse_rate(text).value >= 0
      [] s = MANUALPAY -> parse_amount(text).ok /\ parse_amount(text).value > 0
      [] s = NAME -> Len(strip(text)) > 0

Range(f) == {f[x] : x \in DOMAIN f}

\* this step computed a schedule
Computes == "summary_text" \in Range(sent') \/ rows' # rows \/ summary' # summary

\* C7: in the flow amount -> term -> rate -> manual payment -> name, a message
\* that fails parsing or validation leaves the step and every stored field as
\* they were; an accepted message stores that step's field, no other, and
\* advances exactly one step; a schedule is computed only when the name step
\* accepts a non-empty name.
C7_OneFieldPerTurn ==
    [][ (update' \in Texts) =>
          /\ state \in Steps
          /\ ~Acceptable(state, update') => (state' = state /\ user_data' = user_data)
          /\ Acceptable(state, update') =>
                /\ state' = Following(state)
                /\ DOMAIN user_data' = (DOMAIN user_data) \cup {Field(state)}
                /\ \A k \in (DOMAIN user_data) \ {Field(state)} :
                       user_data'[k] = user_data[k]
          /\ Computes => (state = NAME /\ Len(strip(update')) > 0)
      ]_vars

\* C8: when one renderer raises in the calculation step, the other renderers
\* have still produced and handed over their output, and the rows and summary
\* they read are the ones build_schedule returned for the collected inputs.
C8_RendererIsolation ==
    ("summary_text" \in Range(sent)) =>
        /\ raised \in RendererNames =>
              \A r \in RendererNames \ {raised} : r \in Range(sent)
        /\ [raised |-> FALSE, rows |-> rows, summary |-> summary]
              \in build_schedule(user_data["amount"], user_data["rate"],
                                 user_data["term"])

====
